---- MODULE Spec2Model ----
(***************************************************************************)
(* A model of the physics core of Solid-Hexagon: the Vector2D helpers and  *)
(* the PhysicsEngine class (src/src/physics/Vector2D.ts) together with the *)
(* hexagon geometry module (utils/hexagon.ts, quoted in src/README.md).    *)
(*                                                                         *)
(* JavaScript numbers are modelled in fixed point:                         *)
(*   lengths      1/LU   px        (LU = 100)                              *)
(*   velocities   1/VU   px/s      (VU = 10)                               *)
(*   unit vectors 1/NS             (NS = 10000)                            *)
(*   angles       1/AS   rad       (AS = 10000)                            *)
(*   time         ms                                                       *)
(* Every division rounds to the nearest unit, ties away from zero, so the  *)
(* arithmetic keeps the mirror symmetries of the real-number formulas.     *)
(* Statements that are exact over the reals are stated up to the rounding  *)
(* quantum where a rounded quotient enters them.                           *)
(***************************************************************************)
EXTENDS Integers, Sequences, FiniteSets, TLC

\* ------------------------------------------------------------------------
\* Fixed-point scales (units per px, per px/s, per unit vector, per radian)
\* ------------------------------------------------------------------------
LU == 10 * 10
VU == 5 * 2
NS == 100 * 100
AS == 100 * 100
TS == 100 * 100      \* scale of the projection parameter t of distanceToEdge
ES == 5 + 5          \* restitution is held in tenths (the slider's step)
FS == 10 * 100       \* friction is held in thousandths (the slider's step)
RS == 2 * 5          \* rotationSpeed is held in tenths of rad/s
MS == 10 * 100       \* milliseconds per second

\* ------------------------------------------------------------------------
\* Integer helpers
\* ------------------------------------------------------------------------
Abs(a) == IF a < 0 THEN -a ELSE a

Min(a, b) == IF a < b THEN a ELSE b

Max(a, b) == IF a > b THEN a ELSE b

Sgn(a) == IF a < 0 THEN -1 ELSE IF a > 0 THEN 1 ELSE 0

\* a / b rounded to the nearest integer, ties away from zero (b > 0)
Div(a, b) == Sgn(a) * ((Abs(a) + (b \div 2)) \div b)

\* Newton's iteration downwards from a start x >= sqrt(n): floor(sqrt(n))
RECURSIVE SqrtIter(_, _)
SqrtIter(n, x) ==
    LET y == (x + (n \div x)) \div 2
    IN  IF y >= x THEN x ELSE SqrtIter(n, y)

\* Math.sqrt, rounded to the nearest integer (0 <= n < 2^31)
Sqrt(n) ==
    LET f == IF n < 2 THEN n
             ELSE IF n < 65536 THEN SqrtIter(n, 256)
             ELSE IF n < 16777216 THEN SqrtIter(n, 4096)
             ELSE SqrtIter(n, 46341)
    IN  IF n - f * f > f THEN f + 1 ELSE f

\* ------------------------------------------------------------------------
\* Math.cos / Math.sin on angles in 1/AS rad, results in 1/NS
\* ------------------------------------------------------------------------
Pi == 31416

HalfPi == Pi \div 2

TwoPi == 2 * Pi

\* Taylor polynomial of cos on [0, pi/2]
CosSeries(x) ==
    LET t  == Div(x * x, AS)
        t2 == Div(t * t, AS)
        t3 == Div(t2 * t, AS)
        t4 == Div(t3 * t, AS)
    IN  NS - Div(t, 2) + Div(t2, 24) - Div(t3, 720) + Div(t4, 40320)

\* Taylor polynomial of sin on [0, pi/4]
SinSeries(x) ==
    LET t  == Div(x * x, AS)
        t2 == Div(t * t, AS)
        t3 == Div(t2 * t, AS)
    IN  x - Div(x * t, 6 * AS) + Div(x * t2, 120 * AS) - Div(x * t3, 5040 * AS)

\* cos on the first quadrant [0, pi/2]
CosQ(x) == IF 2 * x <= HalfPi THEN CosSeries(x) ELSE SinSeries(HalfPi - x)

Cos(a) ==
    LET r == a % TwoPi
    IN  IF r <= HalfPi THEN CosQ(r)
        ELSE IF r <= Pi THEN -CosQ(Pi - r)
        ELSE IF r <= Pi + HalfPi THEN -CosQ(r - Pi)
        ELSE CosQ(TwoPi - r)

Sin(a) == Cos(a - HalfPi)

\* ------------------------------------------------------------------------
\* Vector2D
\* ------------------------------------------------------------------------
Vec(x, y) == [x |-> x, y |-> y]

add(a, b) == Vec(a.x + b.x, a.y + b.y)

subtract(a, b) == Vec(a.x - b.x, a.y - b.y)

dot(a, b) == a.x * b.x + a.y * b.y

magnitudeSquared(a) == a.x * a.x + a.y * a.y

magnitude(a) == Sqrt(a.x * a.x + a.y * a.y)

distance(a, b) == Sqrt((a.x - b.x) * (a.x - b.x) + (a.y - b.y) * (a.y - b.y))

\* this.divide(this.magnitude()), the result held in 1/NS; the zero vector
\* stays zero.  The magnitude is taken k times finer than a length unit (k
\* as large as 32 bits allow), so that the result is a unit vector to 1/NS.
normalize(a) ==
    LET msq == magnitudeSquared(a)
        k   == IF msq = 0 THEN 1 ELSE Max(1, Sqrt((2 ^ 30) \div msq) - 1)
        mag == Sqrt(msq * k * k)
    IN  IF mag = 0 THEN Vec(0, 0)
        ELSE Vec(Div(a.x * NS * k, mag), Div(a.y * NS * k, mag))

\* Vector2D.rotate, the angle in 1/AS rad
rotate(a, angle) ==
    Vec(Div(a.x * Cos(angle) - a.y * Sin(angle), NS),
        Div(a.x * Sin(angle) + a.y * Cos(angle), NS))

\* ------------------------------------------------------------------------
\* utils/hexagon.ts
\* ------------------------------------------------------------------------
Vertex(center, radius, rotation, i) ==
    LET angle == Div(i * Pi, 3) + rotation
    IN  Vec(center.x + Div(radius * Cos(angle), NS),
            center.y + Div(radius * Sin(angle), NS))

\* the edge with its normal turned the other way: (edgeVector.y, -edgeVector.x)
Edge_Outward(vertices, i) ==
    [start  |-> vertices[i],
     end    |-> vertices[(i % 6) + 1],
     normal |-> normalize(Vec(vertices[(i % 6) + 1].y - vertices[i].y,
                              -(vertices[(i % 6) + 1].x - vertices[i].x)))]

\* the edge from vertices[i] to the next vertex, with its unit normal
Edge(vertices, i) ==
    [start  |-> vertices[i],
     end    |-> vertices[(i % 6) + 1],
     normal |-> normalize(Vec(-(vertices[(i % 6) + 1].y - vertices[i].y),
                              vertices[(i % 6) + 1].x - vertices[i].x))]

SixVertices(center, radius, rotation) ==
    << Vertex(center, radius, rotation, 0), Vertex(center, radius, rotation, 1),
       Vertex(center, radius, rotation, 2), Vertex(center, radius, rotation, 3),
       Vertex(center, radius, rotation, 4), Vertex(center, radius, rotation, 5) >>

SixEdges(vertices) ==
    << Edge(vertices, 1), Edge(vertices, 2), Edge(vertices, 3),
       Edge(vertices, 4), Edge(vertices, 5), Edge(vertices, 6) >>

\* vertices and edges are 1-indexed: vertices[i + 1] is the source's vertices[i]
createHexagon(center, radius, rotation) ==
    [center   |-> center,
     radius   |-> radius,
     vertices |-> SixVertices(center, radius, rotation),
     edges    |-> SixEdges(SixVertices(center, radius, rotation)),
     rotation |-> rotation]

\* the rotation that turns the vertices it is given about the centre
rotateHexagon_Incremental(hexagon, deltaRotation) ==
    [center   |-> hexagon.center,
     radius   |-> hexagon.radius,
     vertices |-> << add(hexagon.center, rotate(subtract(hexagon.vertices[1], hexagon.center), deltaRotation)),
                     add(hexagon.center, rotate(subtract(hexagon.vertices[2], hexagon.center), deltaRotation)),
                     add(hexagon.center, rotate(subtract(hexagon.vertices[3], hexagon.center), deltaRotation)),
                     add(hexagon.center, rotate(subtract(hexagon.vertices[4], hexagon.center), deltaRotation)),
                     add(hexagon.center, rotate(subtract(hexagon.vertices[5], hexagon.center), deltaRotation)),
                     add(hexagon.center, rotate(subtract(hexagon.vertices[6], hexagon.center), deltaRotation)) >>,
     edges    |-> hexagon.edges,
     rotation |-> hexagon.rotation + deltaRotation]

rotateHexagon(hexagon, deltaRotation) ==
    createHexagon(hexagon.center, hexagon.radius, hexagon.rotation + deltaRotation)

\* a horizontal ray from point to the right meets the edge
rayIntersectsEdge(point, edgeStart, edgeEnd) ==
    IF (edgeStart.y > point.y) = (edgeEnd.y > point.y)
    THEN FALSE
    ELSE LET dy == edgeEnd.y - edgeStart.y
             intersectionX ==
                 edgeStart.x + Div((point.y - edgeStart.y) * (edgeEnd.x - edgeStart.x) * Sgn(dy),
                                   Abs(dy))
         IN  intersectionX > point.x

isPointInsideHexagon(point, hexagon) ==
    Cardinality({i \in 1..6 : rayIntersectsEdge(point, hexagon.edges[i].start,
                                                hexagon.edges[i].end)}) % 2 = 1

distanceToEdge(point, edgeStart, edgeEnd) ==
    LET edgeVector        == subtract(edgeEnd, edgeStart)
        pointVector       == subtract(point, edgeStart)
        edgeLengthSquared == magnitudeSquared(edgeVector)
    IN  IF edgeLengthSquared = 0
        THEN [distance     |-> distance(point, edgeStart),
              closestPoint |-> edgeStart,
              isOnSegment  |-> TRUE]
        ELSE LET raw == Div(dot(pointVector, edgeVector), Max(1, Div(edgeLengthSquared, TS)))
                 t   == Max(0, Min(TS, raw))
                 closestPoint == Vec(edgeStart.x + Div(edgeVector.x * t, TS),
                                     edgeStart.y + Div(edgeVector.y * t, TS))
             IN  [distance     |-> distance(point, closestPoint),
                  closestPoint |-> closestPoint,
                  isOnSegment  |-> t >= 0 /\ t <= TS]

\* the for-loop of circleHexagonCollision over edges i..6, carrying the
\* closest edge found so far (closestEdge = 0 stands for null)
RECURSIVE ClosestScan(_, _, _, _)
ClosestScan(circleCenter, hexagon, i, best) ==
    IF i > 6 THEN best
    ELSE LET result == distanceToEdge(circleCenter, hexagon.edges[i].start,
                                      hexagon.edges[i].end)
         IN  IF best.closestEdge = 0 \/ result.distance < best.closestDistance
             THEN ClosestScan(circleCenter, hexagon, i + 1,
                              [closestEdge     |-> i,
                               closestDistance |-> result.distance,
                               closestPoint    |-> result.closestPoint])
             ELSE ClosestScan(circleCenter, hexagon, i + 1, best)

NoCollision == [isColliding |-> FALSE, collisionEdge |-> 0,
                collisionPoint |-> Vec(0, 0), penetrationDepth |-> 0]

\* the collision test with touching left out: closestDistance < radius
circleHexagonCollision_Strict(circleCenter, radius, hexagon) ==
    LET best == ClosestScan(circleCenter, hexagon, 1,
                            [closestEdge |-> 0, closestDistance |-> 0,
                             closestPoint |-> Vec(0, 0)])
    IN  IF best.closestEdge # 0 /\ best.closestDistance < radius
        THEN [isColliding      |-> TRUE,
              collisionEdge    |-> best.closestEdge,
              collisionPoint   |-> best.closestPoint,
              penetrationDepth |-> radius - best.closestDistance]
        ELSE NoCollision

circleHexagonCollision(circleCenter, radius, hexagon) ==
    LET best == ClosestScan(circleCenter, hexagon, 1,
                            [closestEdge |-> 0, closestDistance |-> 0,
                             closestPoint |-> Vec(0, 0)])
    IN  IF best.closestEdge # 0 /\ best.closestDistance <= radius
        THEN [isColliding      |-> TRUE,
              collisionEdge    |-> best.closestEdge,
              collisionPoint   |-> best.closestPoint,
              penetrationDepth |-> radius - best.closestDistance]
        ELSE NoCollision


\* ------------------------------------------------------------------------
\* PhysicsConfig values.  gravity is in px/s^2, friction in 1/FS, restitution
\* in 1/ES, rotationSpeed in 1/RS rad/s, ballRadius in px, maxVelocity in px/s.
\* ------------------------------------------------------------------------
ConfigFields == {"gravity", "friction", "restitution", "rotationSpeed",
                 "ballRadius", "maxVelocity"}

\* the configuration the component constructs the engine with
DefaultConfig ==
    [gravity |-> 500, friction |-> 20, restitution |-> 8,
     rotationSpeed |-> 10, ballRadius |-> 12, maxVelocity |-> 800]

\* Math.random(), in thousandths of [0, 1)
Rand == {0, 875}

RandMid == 500

\* (Math.random() - 0.5) * span, a velocity in 1/VU px/s
RandomVelocity(r, span) == Div((r - RandMid) * span * VU, MS)

\* ------------------------------------------------------------------------
\* PhysicsEngine: the private steps of update, as functions of the ball state
\* ------------------------------------------------------------------------
MaxDt == 16

StallSpeed == 10

InitSpan == 200

StallSpan == 50

newBallState(hexagon, r1, r2) ==
    [position     |-> Vec(hexagon.center.x, hexagon.center.y),
     velocity     |-> Vec(RandomVelocity(r1, InitSpan), RandomVelocity(r2, InitSpan)),
     acceleration |-> Vec(0, 0)]

applyGravity(b, cfg) ==
    [b EXCEPT !.acceleration.y = @ + cfg.gravity]

applyFriction(b, cfg, deltaTime) ==
    LET frictionForce == cfg.friction * deltaTime
    IN  [b EXCEPT !.velocity.x = @ - Div(@ * frictionForce, FS * MS),
                  !.velocity.y = @ - Div(@ * frictionForce, FS * MS)]

\* updateVelocity without its acceleration.set(0, 0)
updateVelocity_KeepsAcceleration(b, deltaTime) ==
    [b EXCEPT !.velocity.x = @ + Div(b.acceleration.x * deltaTime * VU, MS),
              !.velocity.y = @ + Div(b.acceleration.y * deltaTime * VU, MS)]

updateVelocity(b, deltaTime) ==
    [b EXCEPT !.velocity.x = @ + Div(b.acceleration.x * deltaTime * VU, MS),
              !.velocity.y = @ + Div(b.acceleration.y * deltaTime * VU, MS),
              !.acceleration = Vec(0, 0)]

\* the limit applied to each component on its own
limitVelocity_PerAxis(b, cfg) ==
    [b EXCEPT !.velocity.x = Max(-cfg.maxVelocity * VU, Min(cfg.maxVelocity * VU, @)),
              !.velocity.y = Max(-cfg.maxVelocity * VU, Min(cfg.maxVelocity * VU, @))]

limitVelocity(b, cfg) ==
    LET speed == magnitude(b.velocity)
    IN  IF speed > cfg.maxVelocity * VU
        THEN [b EXCEPT !.velocity.x = Div(@ * cfg.maxVelocity * VU, speed),
                       !.velocity.y = Div(@ * cfg.maxVelocity * VU, speed)]
        ELSE b

updatePosition(b, deltaTime) ==
    [b EXCEPT !.position.x = @ + Div(b.velocity.x * deltaTime * LU, VU * MS),
              !.position.y = @ + Div(b.velocity.y * deltaTime * LU, VU * MS)]

\* steps 1-5 with the drag applied after the velocity is integrated, so that
\* the gravity of the step is damped too
integrate_GravityDamped(b, cfg, deltaTime) ==
    updatePosition(
        limitVelocity(
            applyFriction(updateVelocity(applyGravity(b, cfg), deltaTime),
                          cfg, deltaTime),
            cfg),
        deltaTime)

\* steps 1-5 of update
integrate(b, cfg, deltaTime) ==
    updatePosition(
        limitVelocity(
            updateVelocity(applyFriction(applyGravity(b, cfg), cfg, deltaTime),
                           deltaTime),
            cfg),
        deltaTime)

\* the reflection with its sign wrong: v + 2 (v . n) n * restitution
reflectVelocity_Plus(incidentVelocity, normal, cfg) ==
    LET dotProduct == dot(incidentVelocity, normal)
        twice      == Div(Div(2 * dotProduct, NS) * cfg.restitution, ES)
    IN  Vec(incidentVelocity.x + Div(twice * normal.x, NS),
            incidentVelocity.y + Div(twice * normal.y, NS))

\* the whole mirrored velocity scaled: (v - 2 (v . n) n) * restitution
reflectVelocity_Scaled(incidentVelocity, normal, cfg) ==
    LET dotProduct == dot(incidentVelocity, normal)
        twice      == Div(2 * dotProduct, NS)
    IN  Vec(Div((incidentVelocity.x - Div(twice * normal.x, NS)) * cfg.restitution, ES),
            Div((incidentVelocity.y - Div(twice * normal.y, NS)) * cfg.restitution, ES))

\* v - 2 (v . n) n * restitution
reflectVelocity(incidentVelocity, normal, cfg) ==
    LET dotProduct == dot(incidentVelocity, normal)
        twice      == Div(Div(2 * dotProduct, NS) * cfg.restitution, ES)
    IN  Vec(incidentVelocity.x - Div(twice * normal.x, NS),
            incidentVelocity.y - Div(twice * normal.y, NS))

\* the guard satisfied by one slow component alone
stalled_EitherAxis(v) == Abs(v.x) < StallSpeed * VU \/ Abs(v.y) < StallSpeed * VU

\* the test that guards the random perturbation of resolveCollision
stalled(v) == Abs(v.x) < StallSpeed * VU /\ Abs(v.y) < StallSpeed * VU

\* the collision response that separates the ball and keeps its velocity
resolveCollision_NoReflect(b, cfg, edge, penetrationDepth, r1, r2) ==
    [b EXCEPT !.position = add(b.position,
                               Vec(Div(edge.normal.x * penetrationDepth, NS),
                                   Div(edge.normal.y * penetrationDepth, NS)))]

\* the collision response that separates the ball twice over
resolveCollision_TwiceApart(b, cfg, edge, penetrationDepth, r1, r2) ==
    LET separationVector == Vec(Div(edge.normal.x * penetrationDepth, NS),
                                Div(edge.normal.y * penetrationDepth, NS))
        reflectedVelocity == reflectVelocity(b.velocity, edge.normal, cfg)
    IN  [b EXCEPT !.position = add(add(b.position, separationVector), separationVector),
                  !.velocity =
                      IF stalled(reflectedVelocity)
                      THEN Vec(reflectedVelocity.x + RandomVelocity(r1, StallSpan),
                               reflectedVelocity.y + RandomVelocity(r2, StallSpan))
                      ELSE reflectedVelocity]

resolveCollision(b, cfg, edge, penetrationDepth, r1, r2) ==
    LET separationVector == Vec(Div(edge.normal.x * penetrationDepth, NS),
                                Div(edge.normal.y * penetrationDepth, NS))
        reflectedVelocity == reflectVelocity(b.velocity, edge.normal, cfg)
    IN  [b EXCEPT !.position = add(b.position, separationVector),
                  !.velocity =
                      IF stalled(reflectedVelocity)
                      THEN Vec(reflectedVelocity.x + RandomVelocity(r1, StallSpan),
                               reflectedVelocity.y + RandomVelocity(r2, StallSpan))
                      ELSE reflectedVelocity]

detectCollision(b, cfg, hexagon) ==
    circleHexagonCollision(b.position, cfg.ballRadius * LU, hexagon)

\* collision is circleHexagonCollision(position, ballRadius, hexagon) of b
handleCollisions(b, collision, cfg, hexagon, r1, r2) ==
    IF collision.isColliding /\ collision.collisionEdge # 0
    THEN resolveCollision(b, cfg, hexagon.edges[collision.collisionEdge],
                          collision.penetrationDepth, r1, r2)
    ELSE b

updateHexagonRotation(hexagon, cfg, deltaTime) ==
    rotateHexagon(hexagon, Div(cfg.rotationSpeed * deltaTime * AS, RS * MS))

\* update without the clamp of deltaTime
clampDeltaTime_Unclamped(deltaTime) == deltaTime

\* deltaTime = Math.min(deltaTime, 0.016)
clampDeltaTime(deltaTime) == Min(deltaTime, MaxDt)

\* update with the hexagon turned before the collisions are handled
updateBall_TurnedFirst(b, cfg, hexagon, deltaTime, r1, r2) ==
    LET moved  == integrate(b, cfg, clampDeltaTime(deltaTime))
        turned == updateHexagonRotation(hexagon, cfg, clampDeltaTime(deltaTime))
    IN  handleCollisions(moved, detectCollision(moved, cfg, turned), cfg, turned, r1, r2)

\* the ball after update(deltaTime) on a running engine
updateBall(b, cfg, hexagon, deltaTime, r1, r2) ==
    LET moved == integrate(b, cfg, clampDeltaTime(deltaTime))
    IN  handleCollisions(moved, detectCollision(moved, cfg, hexagon), cfg, hexagon, r1, r2)

\* the hexagon after update(deltaTime) on a running engine
updateHexagon(hexagon, cfg, deltaTime) ==
    updateHexagonRotation(hexagon, cfg, clampDeltaTime(deltaTime))

\* reset that forgets to move the ball back
resetBall_KeepsPosition(b, hexagon, r1, r2) ==
    [b EXCEPT !.velocity     = Vec(RandomVelocity(r1, InitSpan),
                                   RandomVelocity(r2, InitSpan)),
              !.acceleration = Vec(0, 0)]

resetBall(b, hexagon, r1, r2) ==
    [b EXCEPT !.position     = Vec(hexagon.center.x, hexagon.center.y),
              !.velocity     = Vec(RandomVelocity(r1, InitSpan),
                                   RandomVelocity(r2, InitSpan)),
              !.acceleration = Vec(0, 0)]

\* { ...this.config, ...newConfig }
mergeConfig(cfg, newConfig) ==
    [f \in DOMAIN cfg |-> IF f \in DOMAIN newConfig THEN newConfig[f] ELSE cfg[f]]

getKineticEnergy(b) == (magnitude(b.velocity) * magnitude(b.velocity)) \div 2

getVelocity(b) == magnitude(b.velocity)


\* ------------------------------------------------------------------------
\* Object identity.  The engine hands vectors and configs to its caller and
\* takes them from it; a handle says whether the caller's object is a copy
\* of its own (live = "") or the very object the engine holds in the named
\* field (live = the field), in which case a write through the handle
\* writes the engine's state.
\* ------------------------------------------------------------------------
BallFields == {"position", "velocity", "acceleration"}

NoVec == [held |-> FALSE, live |-> "", val |-> Vec(0, 0)]

\* Vector2D.clone(): a new object with the same coordinates
clone(v) == [held |-> TRUE, live |-> "", val |-> v]

\* getState handing out the engine's own vectors
getState_Live(b) ==
    [position     |-> [held |-> TRUE, live |-> "position", val |-> b.position],
     velocity     |-> [held |-> TRUE, live |-> "velocity", val |-> b.velocity],
     acceleration |-> [held |-> TRUE, live |-> "acceleration", val |-> b.acceleration]]

getState(b) ==
    [position     |-> clone(b.position),
     velocity     |-> clone(b.velocity),
     acceleration |-> clone(b.acceleration)]

\* setBallPosition / setBallVelocity: what the engine stores for the argument,
\* and whether it is the caller's own object
setBallPosition(position) == [value |-> clone(position).val, shared |-> FALSE]

setBallVelocity(velocity) == [value |-> clone(velocity).val, shared |-> FALSE]

\* the constructor keeping the caller's object: this.config = config
constructConfig_Shared(cfg) == [value |-> cfg, shared |-> TRUE]

\* the constructor's this.config = { ...config }
constructConfig(cfg) == [value |-> cfg, shared |-> FALSE]

\* getConfig's { ...this.config }
getConfig(cfg) == [held |-> TRUE, live |-> FALSE, val |-> cfg]

updateConfig(cfg, newConfig) == mergeConfig(cfg, newConfig)

\* a hexagon the caller holds: live says it is the very object in
\* this.hexagon, val is what it held when it stopped being that object
NoHexagon(h) == [held |-> FALSE, live |-> FALSE, val |-> h]

\* getHexagon's return this.hexagon
getHexagon(h) == [held |-> TRUE, live |-> TRUE, val |-> h]

\* updateHexagonRotation turning the vertices of this.hexagon where they are
installHexagon_InPlace(h, cfg, deltaTime) ==
    [value |-> updateHexagonRotation(h, cfg, clampDeltaTime(deltaTime)), fresh |-> FALSE]

\* this.hexagon = rotateHexagon(this.hexagon, ...): the hexagon update
\* installs, and whether it is a newly built object
installHexagon(h, cfg, deltaTime) ==
    [value |-> updateHexagonRotation(h, cfg, clampDeltaTime(deltaTime)), fresh |-> TRUE]

\* the caller's hexagons once this.hexagon (old until now) has been replaced
Installed(handles, old, fresh) ==
    IF fresh
    THEN [n \in DOMAIN handles |->
            IF handles[n].live
            THEN [held |-> handles[n].held, live |-> FALSE, val |-> old]
            ELSE handles[n]]
    ELSE handles

\* ------------------------------------------------------------------------
\* State
\* ------------------------------------------------------------------------
VARIABLES
    config,      \* PhysicsEngine.config
    ballState,   \* PhysicsEngine.ballState
    hexagon,     \* PhysicsEngine.hexagon
    isRunning,   \* PhysicsEngine.isRunning
    caller,      \* the objects the caller holds: vectors and configs
    probe,       \* a call of circleHexagonCollision made on its own, and its result
    last,        \* the operation performed last and what it did
    history,     \* what has happened since construction
    component    \* BouncingBall: its signals and its animation loop

vars == <<config, ballState, hexagon, isRunning, caller, probe, last, history,
          component>>

engine == <<config, ballState, hexagon, isRunning>>

\* ------------------------------------------------------------------------
\* Bounds of the model
\* ------------------------------------------------------------------------
MaxCalls == 3

MaxFrames == 120

\* the arithmetic stays within 32 bits while the ball is near the hexagon
\* and its speed is moderate; update is not followed beyond that
InRange(b, h) ==
    /\ Abs(b.position.x - h.center.x) <= 2 * h.radius
    /\ Abs(b.position.y - h.center.y) <= 2 * h.radius
    /\ Abs(b.velocity.x) <= 30000
    /\ Abs(b.velocity.y) <= 30000

NoStep == [stepped |-> FALSE, collided |-> FALSE, edge |-> 0, depth |-> 0,
           normal |-> Vec(0, 0), moved |-> Vec(0, 0), incident |-> Vec(0, 0), reflected |-> Vec(0, 0),
           perturbed |-> FALSE]

NoPartial == [f \in {} |-> 0]

Did(name) == [name |-> name, dt |-> 0, partial |-> NoPartial, step |-> NoStep]

\* what a running update did, for the record in last: moved is the ball
\* after steps 1-5 and collision the result of circleHexagonCollision on it
stepRecord(moved, collision, cfg, h) ==
    LET hit       == collision.isColliding /\ collision.collisionEdge # 0
        reflected == IF hit
                     THEN reflectVelocity(moved.velocity,
                                          h.edges[collision.collisionEdge].normal, cfg)
                     ELSE moved.velocity
    IN  [stepped   |-> TRUE,
         collided  |-> hit,
         edge      |-> collision.collisionEdge,
         depth     |-> collision.penetrationDepth,
         normal    |-> IF hit THEN h.edges[collision.collisionEdge].normal
                              ELSE Vec(0, 0),
         moved     |-> moved.position,
         incident  |-> moved.velocity,
         reflected |-> reflected,
         perturbed |-> hit /\ stalled(reflected)]

\* a replaced engine object leaves the caller's handle on the old object
Detach(handles, fields, old) ==
    [n \in DOMAIN handles |->
        IF handles[n].live \in fields
        THEN [held |-> TRUE, live |-> "", val |-> old[handles[n].live]]
        ELSE handles[n]]

Called == [history EXCEPT !.calls = @ + 1]

\* ------------------------------------------------------------------------
\* Construction
\* ------------------------------------------------------------------------
NoCaller(cfg, shared, h) ==
    [vectors  |-> [n \in BallFields \cup {"arg"} |-> NoVec],
     configs  |-> [ctor |-> [held |-> TRUE, live |-> shared, val |-> cfg],
                   got  |-> [held |-> FALSE, live |-> FALSE, val |-> cfg]],
     hexagons |-> [ctor |-> getHexagon(h), got |-> NoHexagon(h)]]

NoProbe == [asked |-> FALSE, hexagon |-> 0, center |-> Vec(0, 0), radius |-> 0,
            result |-> NoCollision,
            turned |-> FALSE, delta |-> 0, there |-> 0, back |-> 0]

\* the component before onMount: isPlaying starts true, no frame is
\* scheduled, animationId is null
NoComponent ==
    [mounted |-> FALSE, cleaned |-> FALSE, calling |-> FALSE, isPlaying |-> TRUE,
     scheduled |-> 0, animationId |-> FALSE, frames |-> 0,
     rendered |-> FALSE, threw |-> FALSE, called |-> <<>>]

Construct(cfg, center, radius, r1, r2) ==
    /\ hexagon = createHexagon(center, radius, 0)
    /\ config = constructConfig(cfg).value
    /\ ballState = newBallState(hexagon, r1, r2)
    /\ isRunning = FALSE
    /\ caller = NoCaller(cfg, constructConfig(cfg).shared, hexagon)
    /\ probe = NoProbe
    /\ component = NoComponent
    /\ last = Did("new")
    /\ history = [calls |-> 0, frames |-> 0, setters |-> FALSE, collisions |-> 0]

\* ------------------------------------------------------------------------
\* Operations of PhysicsEngine
\* ------------------------------------------------------------------------
Start ==
    /\ isRunning' = TRUE
    /\ last' = Did("start")
    /\ UNCHANGED <<config, ballState, hexagon, caller, probe, component, history>>

Stop ==
    /\ isRunning' = FALSE
    /\ last' = Did("stop")
    /\ UNCHANGED <<config, ballState, hexagon, caller, probe, component, history>>

\* update without its first line, if (!this.isRunning) return
Update_Ungated(deltaTime) ==
    /\ InRange(ballState, hexagon)
    /\ LET moved     == integrate(ballState, config, clampDeltaTime(deltaTime))
           collision == detectCollision(moved, config, hexagon)
           rec       == stepRecord(moved, collision, config, hexagon)
       IN  /\ \E r1, r2 \in (IF rec.perturbed THEN Rand ELSE {RandMid}) :
                 ballState' = updateBall(ballState, config, hexagon, deltaTime, r1, r2)
           /\ last' = [Did("update") EXCEPT !.dt = deltaTime, !.step = rec]
           /\ history' = [history EXCEPT
                            !.calls = @ + 1,
                            !.frames = @ + 1,
                            !.collisions = IF rec.collided THEN @ + 1 ELSE @]
    /\ hexagon' = updateHexagon(hexagon, config, deltaTime)
    /\ UNCHANGED <<config, isRunning, probe, component, caller>>

EngineUpdate(deltaTime) ==
    IF ~isRunning
    THEN /\ last' = [Did("update") EXCEPT !.dt = deltaTime]
         /\ UNCHANGED <<config, ballState, hexagon, isRunning, caller, probe, history>>
    ELSE /\ InRange(ballState, hexagon)
         /\ LET moved     == integrate(ballState, config, clampDeltaTime(deltaTime))
                collision == detectCollision(moved, config, hexagon)
                rec       == stepRecord(moved, collision, config, hexagon)
            IN  /\ \E r1, r2 \in (IF rec.perturbed THEN Rand ELSE {RandMid}) :
                      ballState' = updateBall(ballState, config, hexagon, deltaTime, r1, r2)
                /\ last' = [Did("update") EXCEPT !.dt = deltaTime, !.step = rec]
                /\ caller' = [caller EXCEPT
                                !.vectors =
                                    IF rec.collided
                                    THEN Detach(@, {"position", "velocity"},
                                                [position |-> rec.moved,
                                                 velocity |-> rec.incident])
                                    ELSE @,
                                !.hexagons =
                                    Installed(@, hexagon,
                                              installHexagon(hexagon, config,
                                                             deltaTime).fresh)]
                /\ history' = [history EXCEPT
                                 !.calls = @ + 1,
                                 !.frames = @ + 1,
                                 !.collisions = IF rec.collided THEN @ + 1 ELSE @]
         /\ hexagon' = installHexagon(hexagon, config, deltaTime).value
         /\ UNCHANGED <<config, isRunning, probe>>

\* update(deltaTime) called by a caller other than the component
Update(deltaTime) == EngineUpdate(deltaTime) /\ UNCHANGED component

Reset ==
    /\ \E r1, r2 \in Rand : ballState' = resetBall(ballState, hexagon, r1, r2)
    /\ last' = Did("reset")
    /\ history' = Called
    /\ UNCHANGED <<config, hexagon, isRunning, caller, probe, component>>

UpdateConfig(newConfig) ==
    /\ config' = updateConfig(config, newConfig)
    /\ caller' = [caller EXCEPT !.configs =
                    [n \in DOMAIN @ |->
                        IF @[n].live THEN [@[n] EXCEPT !.live = FALSE, !.val = config]
                        ELSE @[n]]]
    /\ last' = [Did("updateConfig") EXCEPT !.partial = newConfig]
    /\ history' = Called
    /\ UNCHANGED <<ballState, hexagon, isRunning, probe, component>>

SetBallPosition(position) ==
    /\ ballState' = [ballState EXCEPT !.position = setBallPosition(position).value]
    /\ caller' = [caller EXCEPT !.vectors =
                    [Detach(@, {"position"}, ballState) EXCEPT !["arg"] =
                        IF setBallPosition(position).shared
                        THEN [held |-> TRUE, live |-> "position", val |-> Vec(0, 0)]
                        ELSE clone(position)]]
    /\ last' = Did("setBallPosition")
    /\ history' = [Called EXCEPT !.setters = TRUE]
    /\ UNCHANGED <<config, hexagon, isRunning, probe, component>>

SetBallVelocity(velocity) ==
    /\ ballState' = [ballState EXCEPT !.velocity = setBallVelocity(velocity).value]
    /\ caller' = [caller EXCEPT !.vectors =
                    [Detach(@, {"velocity"}, ballState) EXCEPT !["arg"] =
                        IF setBallVelocity(velocity).shared
                        THEN [held |-> TRUE, live |-> "velocity", val |-> Vec(0, 0)]
                        ELSE clone(velocity)]]
    /\ last' = Did("setBallVelocity")
    /\ history' = [Called EXCEPT !.setters = TRUE]
    /\ UNCHANGED <<config, hexagon, isRunning, probe, component>>

GetState ==
    /\ caller' = [caller EXCEPT !.vectors =
                    [n \in DOMAIN @ |->
                        IF n \in BallFields THEN getState(ballState)[n] ELSE @[n]]]
    /\ last' = Did("getState")
    /\ history' = Called
    /\ UNCHANGED <<config, ballState, hexagon, isRunning, probe, component>>

GetConfig ==
    /\ caller' = [caller EXCEPT !.configs.got = getConfig(config)]
    /\ last' = Did("getConfig")
    /\ history' = Called
    /\ UNCHANGED <<config, ballState, hexagon, isRunning, probe, component>>

GetHexagon ==
    /\ caller' = [caller EXCEPT !.hexagons.got = getHexagon(hexagon)]
    /\ last' = Did("getHexagon")
    /\ history' = Called
    /\ UNCHANGED <<config, ballState, hexagon, isRunning, probe, component>>

\* the caller writes x and y of a vector it holds
WriteVector(n, v) ==
    /\ caller.vectors[n].held
    /\ IF caller.vectors[n].live = ""
       THEN /\ caller' = [caller EXCEPT !.vectors[n].val = v]
            /\ UNCHANGED ballState
       ELSE /\ ballState' = [ballState EXCEPT ![caller.vectors[n].live] = v]
            /\ UNCHANGED caller
    /\ last' = Did("writeVector")
    /\ history' = Called
    /\ UNCHANGED <<config, hexagon, isRunning, probe, component>>

\* the caller writes fields of a config object it holds
WriteConfig(n, newConfig) ==
    /\ caller.configs[n].held
    /\ IF caller.configs[n].live
       THEN /\ config' = mergeConfig(config, newConfig)
            /\ UNCHANGED caller
       ELSE /\ caller' = [caller EXCEPT !.configs[n].val = mergeConfig(@, newConfig)]
            /\ UNCHANGED config
    /\ last' = Did("writeConfig")
    /\ history' = Called
    /\ UNCHANGED <<ballState, hexagon, isRunning, probe, component>>

\* circleHexagonCollision called on its own, as handleCollisions calls it,
\* with the engine's hexagon turned to the given rotation
Probe(rotation, circleCenter, radius) ==
    /\ LET h == createHexagon(hexagon.center, hexagon.radius, rotation)
       IN  probe' = [NoProbe EXCEPT
                        !.asked = TRUE, !.hexagon = h, !.center = circleCenter,
                        !.radius = radius,
                        !.result = circleHexagonCollision(circleCenter, radius, h)]
    /\ last' = Did("circleHexagonCollision")
    /\ UNCHANGED <<config, ballState, hexagon, isRunning, caller, history, component>>

\* rotateHexagon called on the hexagon probed, and again on its result with
\* the opposite angle
Turn(deltaRotation) ==
    /\ probe.asked
    /\ ~probe.turned
    /\ probe' = [probe EXCEPT
                   !.turned = TRUE,
                   !.delta  = deltaRotation,
                   !.there  = rotateHexagon(probe.hexagon, deltaRotation),
                   !.back   = rotateHexagon(rotateHexagon(probe.hexagon, deltaRotation),
                                            -deltaRotation)]
    /\ last' = Did("rotateHexagon")
    /\ UNCHANGED <<config, ballState, hexagon, isRunning, caller, history, component>>

\* ------------------------------------------------------------------------
\* Spec: the engine driven through its mutators, over a short horizon
\* ------------------------------------------------------------------------
Center == Vec(3000, 2000)

SmallRadius == 16 * LU

ElasticConfig == [DefaultConfig EXCEPT !.friction = 0, !.restitution = 10,
                                       !.rotationSpeed = -50]

\* a slow ball, without gravity
CrawlConfig ==
    [gravity |-> 0, friction |-> 0, restitution |-> 8,
     rotationSpeed |-> 10, ballRadius |-> 12, maxVelocity |-> 12]

InitConfigs == {DefaultConfig, ElasticConfig, CrawlConfig}

Partials ==
    { [restitution |-> -5],
      [restitution |-> 3],
      [gravity |-> 0, friction |-> 100, maxVelocity |-> 300] }

Velocities == { Vec(0, 0), Vec(0, 6000), Vec(-5000, 2500) }

Positions == { add(Center, Vec(0, 300)), add(Center, Vec(-900, -500)) }

DeltaTimes == {8, 16, 40}

Init ==
    \E cfg \in InitConfigs, r1, r2 \in Rand :
        Construct(cfg, Center, SmallRadius, r1, r2)

Budget == history.calls < MaxCalls

Next ==
    \/ Start
    \/ Stop
    \/ \E dt \in DeltaTimes : (isRunning => Budget) /\ Update(dt)
    \/ Budget /\ Reset
    \/ \E p \in Partials : Budget /\ UpdateConfig(p)
    \/ \E v \in Positions : Budget /\ SetBallPosition(v)
    \/ \E v \in Velocities : Budget /\ SetBallVelocity(v)

Spec == Init /\ [][Next]_vars

\* ------------------------------------------------------------------------
\* SpecRun: a fresh engine is started and driven frame after frame, as the
\* component's animation loop drives it; the caller may put the ball at
\* rest before the first frame
\* ------------------------------------------------------------------------
\* the configuration of the falling-ball scenario
ScenarioConfig ==
    [gravity |-> 500, friction |-> 0, restitution |-> 10,
     rotationSpeed |-> 0, ballRadius |-> 10, maxVelocity |-> 10000]

\* a small ball under the strongest gravity the sliders offer
SmallBallConfig ==
    [gravity |-> 1000, friction |-> 0, restitution |-> 10,
     rotationSpeed |-> 0, ballRadius |-> 2, maxVelocity |-> 800]

\* strong drag and a low speed limit
DragConfig ==
    [gravity |-> 500, friction |-> 5000, restitution |-> 8,
     rotationSpeed |-> 10, ballRadius |-> 12, maxVelocity |-> 100]

\* no gravity, no drag, and a speed limit below the initial speed
DriftConfig ==
    [gravity |-> 0, friction |-> 0, restitution |-> 10,
     rotationSpeed |-> -50, ballRadius |-> 12, maxVelocity |-> 50]

\* a small heavy ball that moves its own radius in a step at most, and
\* loses little of its approach at a wall that stands still
SinkConfig ==
    [gravity |-> 1000, friction |-> 0, restitution |-> 1,
     rotationSpeed |-> 0, ballRadius |-> 2, maxVelocity |-> 125]

Setups ==
    { [config |-> ScenarioConfig, center |-> Vec(0, 0), radius |-> 200 * LU],
      [config |-> SinkConfig, center |-> Center, radius |-> SmallRadius],
      [config |-> SmallBallConfig, center |-> Center, radius |-> 40 * LU],
      [config |-> DragConfig, center |-> Center, radius |-> 200 * LU],
      [config |-> DriftConfig, center |-> Center, radius |-> 200 * LU] }

\* one frame at 60 Hz, 1/60 s, to the millisecond
FrameDt == Div(MS, 60)

InitRun ==
    \E s \in Setups, r1, r2 \in Rand :
        Construct(s.config, s.center, s.radius, r1, r2)

NextRun ==
    \/ Start
    \/ history.calls = 0 /\ SetBallVelocity(Vec(0, 0))
    \/ isRunning /\ history.frames < MaxFrames /\ Update(FrameDt)

SpecRun == InitRun /\ [][NextRun]_vars

\* ------------------------------------------------------------------------
\* SpecAlias: the caller keeps the objects it gave to the engine and got
\* from it, and writes to them between the engine's operations
\* ------------------------------------------------------------------------
Written == Vec(700, -700)

WrittenConfig == [gravity |-> 0, ballRadius |-> 3]

AliasPartials == { [restitution |-> 3], [gravity |-> 900, friction |-> 100] }

InitAlias ==
    \E cfg \in InitConfigs, r1, r2 \in Rand :
        Construct(cfg, Center, SmallRadius, r1, r2)

NextAlias ==
    \/ Start
    \/ Budget /\ Update(MaxDt)
    \/ Budget /\ GetState
    \/ Budget /\ GetConfig
    \/ Budget /\ GetHexagon
    \/ \E n \in BallFields \cup {"arg"} : Budget /\ WriteVector(n, Written)
    \/ \E n \in {"ctor", "got"} : Budget /\ WriteConfig(n, WrittenConfig)
    \/ \E p \in AliasPartials : Budget /\ UpdateConfig(p)
    \/ Budget /\ SetBallPosition(add(Center, Vec(-900, -500)))
    \/ Budget /\ SetBallVelocity(Vec(-5000, 2500))

SpecAlias == InitAlias /\ [][NextAlias]_vars

\* ------------------------------------------------------------------------
\* SpecGeom: circleHexagonCollision on hexagons in several rotations, with
\* circles inside, across, on and outside the boundary
\* ------------------------------------------------------------------------
Rotations == {0, 2618, -7000}

Offsets == { Vec(x, y) : x \in {-1700, -700, 0, 700, 1700},
                         y \in {-1500, -700, 0, 700, 1500} }

\* the inradius of a hexagon of circumradius r: r * sqrt(3) / 2
Inradius(r) == Sqrt((3 * r * r) \div 4)

ProbeRadii == { LU, 12 * LU, Inradius(SmallRadius) - 5, Inradius(SmallRadius) + 5 }

\* the hexagons createHexagon is asked for: centres and radii
GeomSetups ==
    { [center |-> Center, radius |-> SmallRadius],
      [center |-> Center, radius |-> 40 * LU],
      [center |-> add(Center, Vec(-700, 700)), radius |-> 200 * LU] }

InitGeom ==
    \E g \in GeomSetups :
        Construct(DefaultConfig, g.center, g.radius, RandMid, RandMid)

ProbeCenters == { add(Center, o) : o \in Offsets }

Deltas == {5236, -12345, 70000}

NextGeom ==
    \/ \E rotation \in Rotations, circleCenter \in ProbeCenters, radius \in ProbeRadii :
            ~probe.asked /\ Probe(rotation, circleCenter, radius)
    \/ \E deltaRotation \in Deltas : Turn(deltaRotation)

SpecGeom == InitGeom /\ [][NextGeom]_vars

\* ------------------------------------------------------------------------
\* SpecFrame: the component BouncingBall around its engine: onMount, the
\* animation loop, the buttons, a slider and onCleanup
\* ------------------------------------------------------------------------
\* the methods of the class PhysicsEngine
EngineMethods ==
    {"update", "start", "stop", "reset", "getState", "getHexagon", "updateConfig",
     "getConfig", "setBallPosition", "setBallVelocity", "getKineticEnergy",
     "getVelocity"}

\* the calls animate makes on the engine in a playing frame, in their order
FrameCalls ==
    <<"update", "getState", "getHexagon", "getKineticEnergy", "getVelocity",
      "hasCollisionThisFrame">>

\* the calls of a sequence that return: a call of a property that is no
\* method of the engine throws a TypeError, which ends the sequence
RECURSIVE Completed(_)
Completed(calls) ==
    IF calls = <<>> \/ Head(calls) \notin EngineMethods
    THEN <<>>
    ELSE <<Head(calls)>> \o Completed(Tail(calls))

\* onMount up to the call animate(lastTime) of startAnimation: the engine,
\* constructed, is started
Mount ==
    /\ ~component.mounted
    /\ isRunning' = TRUE
    /\ component' = [component EXCEPT !.mounted = TRUE, !.calling = TRUE]
    /\ last' = Did("onMount")
    /\ UNCHANGED <<config, ballState, hexagon, caller, probe, history>>

\* animate, called by startAnimation (no time has passed) or as the frame
\* scheduled by requestAnimationFrame
Animate ==
    /\ component.mounted
    /\ component.calling \/ component.scheduled > 0
    /\ component.frames < MaxFrames
    /\ LET deltaTime == IF component.calling THEN 0 ELSE clampDeltaTime(FrameDt)
           done      == IF component.isPlaying THEN Completed(FrameCalls) ELSE <<>>
           threw     == component.isPlaying /\ Len(done) < Len(FrameCalls)
       IN  /\ IF done # <<>>
              THEN EngineUpdate(deltaTime)
              ELSE /\ last' = Did("animate")
                   /\ UNCHANGED <<config, ballState, hexagon, isRunning, caller, probe,
                                  history>>
           /\ component' = [component EXCEPT
                              !.calling     = FALSE,
                              !.frames      = @ + 1,
                              !.called      = done,
                              !.threw       = threw,
                              !.rendered    = ~threw,
                              !.scheduled   = (IF component.calling THEN @ ELSE @ - 1)
                                                + (IF threw THEN 0 ELSE 1),
                              !.animationId = @ \/ ~threw]

Interactive == component.mounted /\ ~component.calling /\ ~component.cleaned

TogglePlayPause ==
    /\ Interactive
    /\ component' = [component EXCEPT !.isPlaying = ~@]
    /\ last' = Did("togglePlayPause")
    /\ UNCHANGED <<config, ballState, hexagon, isRunning, caller, probe, history>>

\* the reset button: engine.reset()
ResetBall == Interactive /\ Budget /\ Reset

\* what the sliders set
SliderUpdates == { [gravity |-> 0], [restitution |-> 5], [rotationSpeed |-> -50] }

\* a slider moved: the effect passes the new config to engine.updateConfig
Slider(updates) == Interactive /\ Budget /\ UpdateConfig(updates)

\* onCleanup: the frame scheduled, if any, is cancelled and the engine stopped
Cleanup ==
    /\ Interactive
    /\ isRunning' = FALSE
    /\ component' = [component EXCEPT
                       !.cleaned   = TRUE,
                       !.scheduled = IF component.animationId THEN 0 ELSE @]
    /\ last' = Did("onCleanup")
    /\ UNCHANGED <<config, ballState, hexagon, caller, probe, history>>

\* the component's engine: its default config, in the middle of the canvas
InitFrame ==
    \E r1, r2 \in Rand :
        Construct(DefaultConfig, Vec(400 * LU, 300 * LU), 200 * LU, r1, r2)

NextFrame ==
    \/ Mount
    \/ Animate
    \/ TogglePlayPause
    \/ ResetBall
    \/ \E updates \in SliderUpdates : Slider(updates)
    \/ Cleanup

SpecFrame == InitFrame /\ [][NextFrame]_vars

\* ------------------------------------------------------------------------
\* Properties
\* ------------------------------------------------------------------------
RunningUpdate == last.name = "update" /\ last.step.stepped

\* C2: the engine is Stopped after construction; only start() and stop()
\* change the run state, start() leaving it Running and stop() Stopped, so
\* it is Running exactly when start() was called with no stop() since; an
\* update made while Stopped changes neither the ball, the hexagon nor the
\* config, and an update made while Running applies a step: the ball is the
\* stepped ball and the hexagon the rotated one.
C2_RunState ==
    /\ (last.name = "new" => ~isRunning)
    /\ [][ /\ isRunning' = (IF last'.name = "start" THEN TRUE
                            ELSE IF last'.name = "stop" THEN FALSE
                            ELSE isRunning)
           /\ (last'.name = "update" /\ ~isRunning =>
                  /\ UNCHANGED <<ballState, hexagon, config>>
                  /\ ~last'.step.stepped)
           /\ (last'.name = "update" /\ isRunning =>
                  /\ last'.step.stepped
                  /\ history'.frames = history.frames + 1
                  /\ \E r1, r2 \in Rand \cup {RandMid} :
                        ballState' = updateBall(ballState, config, hexagon,
                                                last'.dt, r1, r2)
                  /\ hexagon' = updateHexagon(hexagon, config, last'.dt))
         ]_vars

\* an update made while Stopped, after the engine had run and moved the ball
C2_Witness ==
    /\ last.name = "update"
    /\ ~last.step.stepped
    /\ ~isRunning
    /\ history.frames > 0
    /\ ballState.position # hexagon.center

\* C3: reset() leaves the ball exactly at the centre of the engine's
\* hexagon with acceleration (0,0), in either run state and whatever came
\* before, and changes neither the config, the hexagon nor the run state.
C3_Reset ==
    [][ last'.name = "reset" =>
           /\ ballState'.position = hexagon'.center
           /\ ballState'.acceleration = Vec(0, 0)
           /\ UNCHANGED <<config, hexagon, isRunning>>
      ]_vars

\* a reset of a running engine after a collision, with the hexagon rotated
C3_Witness ==
    /\ last.name = "reset"
    /\ isRunning
    /\ history.collisions > 0
    /\ hexagon.rotation # 0
    /\ ballState.position = hexagon.center

\* C4: update(dt) with dt > 0.016 on a running engine leaves the ball and
\* the hexagon rotation that update(0.016) leaves from the same state with
\* the same random draws; and no running update integrates over more than
\* 0.016 s: the ball moves by its new velocity times some h <= 0.016, and
\* the hexagon turns by rotationSpeed times the same h.
C4_Clamp ==
    [][ last'.name = "update" /\ isRunning =>
           /\ (last'.dt > MaxDt =>
                  /\ \E r1, r2 \in Rand \cup {RandMid} :
                        ballState' = updateBall(ballState, config, hexagon, MaxDt, r1, r2)
                  /\ hexagon'.rotation = updateHexagon(hexagon, config, MaxDt).rotation)
           /\ \E h \in 1..MaxDt :
                  /\ last'.step.moved.x - ballState.position.x
                        = Div(last'.step.incident.x * h * LU, VU * MS)
                  /\ last'.step.moved.y - ballState.position.y
                        = Div(last'.step.incident.y * h * LU, VU * MS)
                  /\ hexagon'.rotation - hexagon.rotation
                        = Div(config.rotationSpeed * h * AS, RS * MS)
      ]_vars

\* a running update with dt = 0.040 that moved the ball and turned the hexagon
C4_Witness ==
    /\ RunningUpdate
    /\ last.dt > MaxDt
    /\ last.step.incident # Vec(0, 0)
    /\ config.rotationSpeed # 0
    /\ hexagon.rotation # 0

\* a running update that resolved a collision without the random perturbation
PlainCollision == RunningUpdate /\ last.step.collided /\ ~last.step.perturbed

\* the rounding of a velocity, in 1/VU px/s: a few quotients rounded to the
\* unit, and unit normals held to 1/NS
Quantum == 3

Slack(v) == Quantum + (magnitude(v) \div 5000)

\* the component of v along the inward normal of the edge hit last, in 1/VU px/s
Along(v) == Div(dot(v, last.step.normal), NS)

\* C8 as stated: after a collision is resolved without the perturbation, the
\* speed is at most the speed just before resolution, for every restitution
\* <= 1 (negative values included).
C8_SpeedAnyRestitution ==
    PlainCollision /\ config.restitution <= ES
        => magnitude(ballState.velocity) <= magnitude(last.step.incident) + Slack(last.step.incident)

\* C8 as amended: the same for every restitution with 0 <= restitution <= 1.
C8_Speed ==
    PlainCollision /\ config.restitution >= 0 /\ config.restitution <= ES
        => magnitude(ballState.velocity) <= magnitude(last.step.incident) + Slack(last.step.incident)

\* a collision with restitution 0.8 that turned the velocity round and slowed it
C8_Witness ==
    /\ PlainCollision
    /\ config.restitution = 8
    /\ Along(last.step.incident) < -10 * VU
    /\ ballState.velocity # last.step.incident
    /\ magnitude(ballState.velocity) < magnitude(last.step.incident)

\* C9: after a collision with inward normal n is resolved (no perturbation),
\* the velocity component along n is the pre-collision component times
\* restitution, with the opposite sign.
C9_NormalRetained ==
    PlainCollision
        => Abs(Along(ballState.velocity)
               + Div(config.restitution * Along(last.step.incident), ES))
              <= Slack(last.step.incident)

\* C1: from a fresh, started engine whose ball is smaller than the inradius,
\* with no setBallPosition/setBallVelocity call, the centre of the ball is
\* inside the hexagon after every update, whatever the config.
C1_Containment ==
    RunningUpdate /\ ~history.setters /\ config.ballRadius * LU < Inradius(hexagon.radius)
        => isPointInsideHexagon(ballState.position, hexagon)

\* C5: the caller and the engine share no vector: no vector the caller got
\* from getState() or passed to setBallPosition/setBallVelocity is the
\* engine's own, and writing x and y of such a vector changes nothing of the
\* engine, so that getState(), getVelocity(), getKineticEnergy() and update()
\* observe afterwards what they would have observed without the write.
C5_NoSharedVector ==
    /\ \A n \in DOMAIN caller.vectors : caller.vectors[n].live = ""
    /\ [][ last'.name = "writeVector" =>
              /\ UNCHANGED <<ballState, config, hexagon, isRunning>>
              /\ getVelocity(ballState') = getVelocity(ballState)
              /\ getKineticEnergy(ballState') = getKineticEnergy(ballState)
         ]_vars

\* the caller wrote to a vector it holds, the engine's ball being elsewhere,
\* after the engine had stepped
C5_Witness ==
    /\ last.name = "writeVector"
    /\ history.frames > 0
    /\ \E n \in DOMAIN caller.vectors :
          /\ caller.vectors[n].held
          /\ caller.vectors[n].val = Written
    /\ Written \notin {ballState.position, ballState.velocity, ballState.acceleration}

\* C6: updateConfig(partial) sets exactly the fields of partial and changes
\* nothing else of the engine; the update that follows it works with the new
\* values; and writing to the config object given to the constructor or
\* returned by getConfig() leaves the engine's config as it was.
C6_Config ==
    /\ \A n \in DOMAIN caller.configs : ~caller.configs[n].live
    /\ [][ /\ (last'.name = "updateConfig" =>
                  /\ \A f \in ConfigFields :
                        config'[f] = IF f \in DOMAIN last'.partial
                                     THEN last'.partial[f] ELSE config[f]
                  /\ UNCHANGED <<ballState, hexagon, isRunning>>)
           /\ (last.name = "updateConfig" /\ last'.name = "update" /\ isRunning =>
                  /\ \A f \in DOMAIN last.partial : config[f] = last.partial[f]
                  /\ \E r1, r2 \in Rand \cup {RandMid} :
                        ballState' = updateBall(ballState, config, hexagon,
                                                last'.dt, r1, r2)
                  /\ hexagon' = updateHexagon(hexagon, config, last'.dt))
           /\ (last'.name = "writeConfig" => UNCHANGED <<config, ballState, hexagon, isRunning>>)
         ]_vars

\* the caller wrote to the object it had given to the constructor, after an
\* updateConfig had changed the restitution: the engine's config has the
\* merged restitution and not the written gravity
C6_Witness ==
    /\ last.name = "writeConfig"
    /\ config.restitution = 3
    /\ caller.configs.ctor.val.gravity = WrittenConfig.gravity
    /\ config.gravity # WrittenConfig.gravity

\* the distance from the centre of the probing circle to edge i of its hexagon
ProbeDistance(i) ==
    distanceToEdge(probe.center, probe.hexagon.edges[i].start,
                   probe.hexagon.edges[i].end).distance

\* the least of the six
ProbeMinimum == CHOOSE m \in {ProbeDistance(i) : i \in 1..6} :
                    \A i \in 1..6 : m <= ProbeDistance(i)

\* C7: circleHexagonCollision reports a collision exactly when the least of
\* the distances from the centre to the six edges is <= radius; the edge it
\* returns is the first one at that least distance, and the penetration
\* depth is radius minus that distance, never negative.  A circle at the
\* centre of the hexagon collides when its radius is above the inradius and
\* does not when it is below (to the rounding of a length).
C7_Closest ==
    probe.asked =>
        /\ probe.result.isColliding = (ProbeMinimum <= probe.radius)
        /\ (probe.result.isColliding =>
              /\ probe.result.collisionEdge \in 1..6
              /\ ProbeDistance(probe.result.collisionEdge) = ProbeMinimum
              /\ \A j \in 1..(probe.result.collisionEdge - 1) :
                    ProbeDistance(j) > ProbeMinimum
              /\ probe.result.penetrationDepth = probe.radius - ProbeMinimum
              /\ probe.result.penetrationDepth >= 0)
        /\ (probe.center = probe.hexagon.center =>
              /\ (probe.radius >= Inradius(probe.hexagon.radius) + Quantum
                     => probe.result.isColliding /\ probe.result.penetrationDepth > 0)
              /\ (probe.radius <= Inradius(probe.hexagon.radius) - Quantum
                     => ~probe.result.isColliding))

\* a circle that just touches the hexagon at a vertex, where two edges are
\* equally near: a collision with the first of them, of depth 0
C7_Witness ==
    /\ probe.asked
    /\ probe.result.isColliding
    /\ ProbeMinimum = probe.radius
    /\ probe.result.penetrationDepth = 0
    /\ \E j \in 1..6 : /\ j > probe.result.collisionEdge
                       /\ ProbeDistance(j) = ProbeMinimum

\* the falling-ball scenario: its config and hexagon, the ball put at rest
\* before the first frame
InScenario ==
    /\ config = ScenarioConfig
    /\ hexagon = createHexagon(Vec(0, 0), 200 * LU, 0)
    /\ history.setters

\* the horizontal edge below the centre (y grows downwards, as gravity pulls)
BottomEdge(h) ==
    CHOOSE i \in 1..6 : /\ h.edges[i].start.y = h.edges[i].end.y
                        /\ h.edges[i].start.y > h.center.y

\* C10: in the scenario every update(1/60) leaves x and the x velocity 0;
\* until the first collision every step increases the y velocity; the first
\* collision is with the bottom edge, without perturbation, and leaves the y
\* velocity of the same magnitude as just before the impact, pointing up.
C10_Scenario ==
    [][ InScenario /\ RunningUpdate' =>
           /\ ballState'.position.x = 0
           /\ ballState'.velocity.x = 0
           /\ (history.collisions = 0 /\ ~last'.step.collided =>
                  ballState'.velocity.y > ballState.velocity.y)
           /\ (history.collisions = 0 /\ last'.step.collided =>
                  /\ last'.step.edge = BottomEdge(hexagon)
                  /\ ~last'.step.perturbed
                  /\ last'.step.incident.y > ballState.velocity.y
                  /\ last'.step.incident.y > 0
                  /\ ballState'.velocity.y = -last'.step.incident.y)
      ]_vars

\* the first collision of the scenario: on the bottom edge, the ball going up
C10_Witness ==
    /\ InScenario
    /\ RunningUpdate
    /\ last.step.collided
    /\ history.collisions = 1
    /\ last.step.edge = BottomEdge(hexagon)
    /\ ballState.velocity.y < 0
    /\ ballState.position.y > 150 * LU

\* C11: between the engine's operations the acceleration of the ball is
\* exactly (0,0): after construction, after every update in either run
\* state, after reset and after every mutator.
C11_AccelerationCleared == ballState.acceleration = Vec(0, 0)

\* a second running update under gravity: the first one's gravity was consumed
C11_Witness ==
    /\ RunningUpdate
    /\ config.gravity > 0
    /\ history.frames >= 2
    /\ ballState.acceleration = Vec(0, 0)
    /\ ballState.velocity.y # 0

\* createHexagon's postcondition on h, lengths to the rounding quantum: six
\* vertices at distance radius from the centre; six edges, edge i from
\* vertex i to the next one (cyclically); every normal of unit length,
\* perpendicular to its edge, and pointing to the side of the centre
WellFormed(h) ==
    /\ Len(h.vertices) = 6
    /\ Len(h.edges) = 6
    /\ \A i \in 1..6 :
          /\ h.edges[i].start = h.vertices[i]
          /\ h.edges[i].end = h.vertices[(i % 6) + 1]
          /\ Abs(distance(h.vertices[i], h.center) - h.radius) <= Quantum
          /\ Abs(magnitude(h.edges[i].normal) - NS) <= Quantum
          /\ Abs(Div(dot(h.edges[i].normal,
                         subtract(h.edges[i].end, h.edges[i].start)), NS)) <= Quantum
          /\ dot(h.edges[i].normal,
                 subtract(add(h.center, h.center),
                          add(h.edges[i].start, h.edges[i].end))) > 0

\* C12: every hexagon createHexagon returns (the one the engine was built
\* with, and the one built for each centre, radius and rotation asked for)
\* has 6 vertices at distance radius from the centre and 6 edges joining
\* consecutive vertices, with unit normals perpendicular to the edge and
\* pointing toward the centre.
C12_Hexagon ==
    /\ WellFormed(hexagon)
    /\ (probe.asked => WellFormed(probe.hexagon))

\* a large hexagon built in a rotation that puts no edge along an axis
C12_Witness ==
    /\ probe.asked
    /\ probe.hexagon.radius = 200 * LU
    /\ probe.hexagon.rotation # 0
    /\ probe.hexagon.center # Center
    /\ \A i \in 1..6 : /\ probe.hexagon.edges[i].normal.x # 0
                       /\ probe.hexagon.edges[i].normal.y # 0

\* the hexagon the caller sees through the one it holds under name n
HexagonSeen(n) ==
    IF caller.hexagons[n].live THEN hexagon ELSE caller.hexagons[n].val

\* C13: no operation changes a hexagon the caller already holds (the one it
\* gave to the constructor, the one getHexagon returned): its centre,
\* radius, rotation, vertices and edges stay as they were; and every running
\* update installs a newly built hexagon, one the caller does not hold, with
\* the centre and radius of the old one.
C13_HexagonImmutable ==
    [][ /\ \A n \in DOMAIN caller.hexagons :
              caller.hexagons[n].held /\ ~(n = "got" /\ last'.name = "getHexagon")
                  => HexagonSeen(n)' = HexagonSeen(n)
        /\ (RunningUpdate' =>
              /\ \A n \in DOMAIN caller.hexagons : ~caller'.hexagons[n].live
              /\ hexagon'.center = hexagon.center
              /\ hexagon'.radius = hexagon.radius
              /\ hexagon' = createHexagon(hexagon.center, hexagon.radius,
                                          hexagon'.rotation))
      ]_vars

\* the engine's hexagon has turned since construction and since getHexagon,
\* and the caller's two hexagons are still in the two earlier rotations
C13_Witness ==
    /\ RunningUpdate
    /\ caller.hexagons.got.held
    /\ HexagonSeen("ctor").rotation = 0
    /\ HexagonSeen("got").rotation # 0
    /\ HexagonSeen("got").rotation # hexagon.rotation
    /\ hexagon.rotation # 0

\* the set of the vertices of h
VertexSet(h) == { h.vertices[i] : i \in 1..6 }

Damped(v, cfg, h) ==
    Vec(v.x - Div(v.x * cfg.friction * h, FS * MS),
        v.y - Div(v.y * cfg.friction * h, FS * MS))

\* v + (0, gravity * h)
Pulled(v, cfg, h) == Vec(v.x, v.y + Div(cfg.gravity * h * VU, MS))

\* v rescaled to speed maxVelocity when it is faster
ClampToMax(v, cfg) ==
    IF magnitude(v) > cfg.maxVelocity * VU
    THEN Vec(Div(v.x * cfg.maxVelocity * VU, magnitude(v)),
             Div(v.y * cfg.maxVelocity * VU, magnitude(v)))
    ELSE v

\* p + v * h
Displaced(p, v, h) ==
    Vec(p.x + Div(v.x * h * LU, VU * MS), p.y + Div(v.y * h * LU, VU * MS))

\* the velocity a running update of h ms gives the ball before any collision
Integrated(v, cfg, h) == ClampToMax(Pulled(Damped(v, cfg, h), cfg, h), cfg)

\* a running update that found no collision
FreeStep == RunningUpdate /\ ~last.step.collided

\* C15 as stated: in a running update without collision the new velocity is
\* clampToMax(v (1 - friction h) + (0, gravity h)) and the new position is
\* the old one + new velocity * h, h = min(dt, 0.016); and with gravity 0
\* and friction 0 the velocity is unchanged and the position is the old one
\* + velocity * h.
C15_IntegrationAnySpeed ==
    [][ FreeStep' =>
          LET h == Min(last'.dt, MaxDt)
          IN  /\ ballState'.velocity = Integrated(ballState.velocity, config, h)
              /\ ballState'.position
                    = Displaced(ballState.position, ballState'.velocity, h)
              /\ (config.gravity = 0 /\ config.friction = 0 =>
                    /\ ballState'.velocity = ballState.velocity
                    /\ ballState'.position
                          = Displaced(ballState.position, ballState.velocity, h))
      ]_vars

\* C15 as amended: the same, the last part for a ball whose speed is not
\* above maxVelocity.
C15_Integration ==
    [][ FreeStep' =>
          LET h == Min(last'.dt, MaxDt)
          IN  /\ ballState'.velocity = Integrated(ballState.velocity, config, h)
              /\ ballState'.position
                    = Displaced(ballState.position, ballState'.velocity, h)
              /\ ((/\ config.gravity = 0
                   /\ config.friction = 0
                   /\ magnitude(ballState.velocity) <= config.maxVelocity * VU) =>
                    /\ ballState'.velocity = ballState.velocity
                    /\ ballState'.position
                          = Displaced(ballState.position, ballState.velocity, h))
      ]_vars

\* a free step under drag and gravity in which both changed the velocity,
\* the drag visibly damping it
C15_Witness ==
    /\ FreeStep
    /\ config = DragConfig
    /\ history.frames >= 3
    /\ last.step.incident.x # 0
    /\ magnitude(last.step.incident) < config.maxVelocity * VU
    /\ ballState.position # hexagon.center

\* C16: in a running update (maxVelocity >= 0) the velocity integrated from
\* drag and gravity, when faster than maxVelocity, is rescaled to speed
\* maxVelocity in the same direction, and otherwise kept; the position is
\* then moved by that velocity times h, so by at most maxVelocity * 0.016,
\* before any collision correction.
C16_SpeedClamp ==
    [][ RunningUpdate' /\ config.maxVelocity >= 0 =>
          LET h == Min(last'.dt, MaxDt)
              u == Pulled(Damped(ballState.velocity, config, h), config, h)
              w == last'.step.incident
          IN  /\ (magnitude(u) > config.maxVelocity * VU =>
                    /\ Abs(magnitude(w) - config.maxVelocity * VU) <= Quantum
                    /\ Abs(u.x * w.y - u.y * w.x) <= magnitude(u)
                    /\ (w # Vec(0, 0) => dot(u, w) > 0))
              /\ (magnitude(u) <= config.maxVelocity * VU => w = u)
              /\ last'.step.moved = Displaced(ballState.position, w, h)
              /\ magnitude(subtract(last'.step.moved, ballState.position))
                    <= Div(config.maxVelocity * MaxDt * LU, MS) + Quantum
      ]_vars

\* the first update of a ball created faster than maxVelocity: it moved at
\* speed maxVelocity, along a direction off both axes
C16_Witness ==
    /\ RunningUpdate
    /\ config = DriftConfig
    /\ history.frames = 1
    /\ ~history.setters
    /\ Abs(magnitude(last.step.incident) - config.maxVelocity * VU) <= Quantum
    /\ last.step.incident.x # 0
    /\ last.step.incident.y # 0
    /\ Abs(last.step.incident.x) # Abs(last.step.incident.y)

\* the component of v along the edge hit last (the normal turned a quarter), in 1/VU px/s
Across(v) == Div(v.y * last.step.normal.x - v.x * last.step.normal.y, NS)

NearestDistance(point, h) ==
    CHOOSE d \in {distanceToEdge(point, h.edges[i].start, h.edges[i].end).distance : i \in 1..6} :
        \A i \in 1..6 : d <= distanceToEdge(point, h.edges[i].start, h.edges[i].end).distance

\* point lies on the inner side of edge e, and its nearest point of the line
\* of e falls strictly between the ends of e
InnerInterior(point, e) ==
    LET along == dot(subtract(point, e.start), subtract(e.end, e.start))
    IN  /\ dot(subtract(point, e.start), e.normal) >= 0
        /\ along > 0
        /\ along < magnitudeSquared(subtract(e.end, e.start))

\* C18: a running update that resolves a collision moves the ball, from where
\* steps 1-5 left it, by normal * p once, with p = ballRadius - the distance
\* from the centre to the nearest edge; if the centre was then on the inner side
\* of the edge hit, its nearest point inside the edge, the centre ends at
\* distance ballRadius from that edge.
C18_Correction ==
    [][ RunningUpdate' /\ last'.step.collided =>
          LET from == last'.step.moved
              e    == hexagon.edges[last'.step.edge]
              p    == config.ballRadius * LU - NearestDistance(from, hexagon)
          IN  /\ last'.step.depth = p
              /\ last'.step.normal = e.normal
              /\ ballState'.position
                    = add(from, Vec(Div(e.normal.x * p, NS), Div(e.normal.y * p, NS)))
              /\ (InnerInterior(from, e) =>
                    Abs(distanceToEdge(ballState'.position, e.start, e.end).distance
                        - config.ballRadius * LU) <= Quantum)
      ]_vars

\* a ball that had sunk into an edge of a hexagon at rest from inside, and
\* was set back to touch it
C18_Witness ==
    /\ RunningUpdate
    /\ last.step.collided
    /\ last.step.depth > 50
    /\ last.step.moved # ballState.position
    /\ config.rotationSpeed = 0
    /\ InnerInterior(last.step.moved, hexagon.edges[last.step.edge])
    /\ distance(last.step.moved, ballState.position) >= last.step.depth - Quantum

\* the hexagon an update of deltaTime found, recovered from the one it left
Before(h, cfg, deltaTime) ==
    createHexagon(h.center, h.radius,
                  h.rotation - Div(cfg.rotationSpeed * Min(deltaTime, MaxDt) * AS, RS * MS))

\* the edges of h that the ball at point overlaps
Overlapped(point, cfg, h) ==
    {i \in 1..6 : distanceToEdge(point, h.edges[i].start, h.edges[i].end).distance
                      <= cfg.ballRadius * LU}

\* C19: a running update tests and resolves the collision against the hexagon
\* it found, resolving one edge at most, and then, collision or not, replaces
\* the hexagon by one with rotation + rotationSpeed * min(dt, 0.016).
C19_Ordering ==
    [][ RunningUpdate' =>
          LET h     == Min(last'.dt, MaxDt)
              moved == integrate(ballState, config, h)
              hit   == circleHexagonCollision(moved.position, config.ballRadius * LU, hexagon)
          IN  /\ last'.step.collided = hit.isColliding
              /\ (~hit.isColliding => ballState' = moved)
              /\ (hit.isColliding =>
                    LET n == hexagon.edges[hit.collisionEdge].normal
                    IN  /\ last'.step.edge = hit.collisionEdge
                        /\ ballState'.position
                              = add(moved.position,
                                    Vec(Div(n.x * hit.penetrationDepth, NS),
                                        Div(n.y * hit.penetrationDepth, NS)))
                        /\ (~last'.step.perturbed =>
                              ballState'.velocity = reflectVelocity(moved.velocity, n, config)))
              /\ hexagon' = createHexagon(hexagon.center, hexagon.radius,
                                          hexagon.rotation
                                            + Div(config.rotationSpeed * h * AS, RS * MS))
      ]_vars

\* a ball that overlapped two edges of a turning hexagon and was resolved
\* against one, at a depth the turned hexagon would not have given
C19_Witness ==
    /\ RunningUpdate
    /\ last.step.collided
    /\ config.rotationSpeed # 0
    /\ Before(hexagon, config, last.dt) # hexagon
    /\ Cardinality(Overlapped(last.step.moved, config, Before(hexagon, config, last.dt))) >= 2
    /\ circleHexagonCollision(last.step.moved, config.ballRadius * LU,
                              Before(hexagon, config, last.dt)).penetrationDepth
          = last.step.depth
    /\ circleHexagonCollision(last.step.moved, config.ballRadius * LU,
                              hexagon).penetrationDepth
          # last.step.depth

\* C20: a running update adds a random amount to the velocity exactly when it
\* resolved a collision and the reflected velocity has |vx| < 10 and
\* |vy| < 10; each component then gets an amount in [-25, 25]; in every other
\* case the velocity is the deterministic one (the integrated velocity, or
\* its reflection).
C20_AntiStall ==
    [][ RunningUpdate' =>
          LET moved == integrate(ballState, config, Min(last'.dt, MaxDt))
              hit   == circleHexagonCollision(moved.position, config.ballRadius * LU, hexagon)
              plain == IF hit.isColliding
                       THEN reflectVelocity(moved.velocity,
                                            hexagon.edges[hit.collisionEdge].normal, config)
                       ELSE moved.velocity
          IN  IF hit.isColliding /\ Abs(plain.x) < 10 * VU /\ Abs(plain.y) < 10 * VU
              THEN /\ last'.step.perturbed
                   /\ Abs(ballState'.velocity.x - plain.x) <= 25 * VU
                   /\ Abs(ballState'.velocity.y - plain.y) <= 25 * VU
              ELSE /\ ~last'.step.perturbed
                   /\ ballState'.velocity = plain
      ]_vars

\* a ball that came off an edge slowly and was sent on at another velocity
C20_Witness ==
    /\ RunningUpdate
    /\ last.step.collided
    /\ last.step.perturbed
    /\ Abs(last.step.reflected.x) < 10 * VU
    /\ Abs(last.step.reflected.y) < 10 * VU
    /\ ballState.velocity.x # last.step.reflected.x
    /\ ballState.velocity.y # last.step.reflected.y

\* the projection of the centre probed onto the line of edge i, times the
\* squared length of the edge
ProbeAlong(i) ==
    dot(subtract(probe.center, probe.hexagon.edges[i].start),
        subtract(probe.hexagon.edges[i].end, probe.hexagon.edges[i].start))

ProbeLengthSquared(i) ==
    magnitudeSquared(subtract(probe.hexagon.edges[i].end, probe.hexagon.edges[i].start))

\* C21: distanceToEdge(point, a, b) returns isOnSegment true exactly when the
\* unclamped projection parameter of point on the line through a and b is in
\* [0, 1], and false when the projection falls beyond an end, the closest
\* point returned being then that end.
C21_OnSegment ==
    probe.asked =>
        \A i \in 1..6 :
            LET e      == probe.hexagon.edges[i]
                result == distanceToEdge(probe.center, e.start, e.end)
            IN  /\ result.isOnSegment
                      = (ProbeAlong(i) >= 0 /\ ProbeAlong(i) <= ProbeLengthSquared(i))
                /\ (ProbeAlong(i) < 0 => result.closestPoint = e.start)
                /\ (ProbeAlong(i) > ProbeLengthSquared(i) => result.closestPoint = e.end)

\* C22: after every running update the speed of the ball is at most the
\* maxVelocity of the config, collisions resolved and random perturbations
\* included.  Stated here for the configs with 0 <= restitution <= 1 and a
\* positive maxVelocity only.
C22_SpeedCap ==
    RunningUpdate /\ config.restitution \in 0..ES /\ config.maxVelocity > 0
        => magnitude(ballState.velocity) <= config.maxVelocity * VU + Quantum

\* C23: after a collision is resolved without the perturbation, the velocity
\* has a component >= 0 along the inward normal of the edge hit, for every
\* restitution in (0, 1] and every velocity before the collision, that of a
\* ball already leaving the wall included.
C23_LeavesWall ==
    PlainCollision /\ config.restitution \in 1..ES
        => Along(ballState.velocity) >= -Slack(last.step.incident)

\* C24: with rotationSpeed 0, restitution in (0, 1], ballRadius below the
\* inradius and maxVelocity * 0.016 <= ballRadius, from a fresh engine driven
\* by start and update alone, the centre of the ball is inside the hexagon
\* after every update, corners where two edges are overlapped included.
C24_StaticWall ==
    (/\ RunningUpdate
     /\ ~history.setters
     /\ config.rotationSpeed = 0
     /\ config.restitution \in 1..ES
     /\ config.ballRadius * LU < Inradius(hexagon.radius)
     /\ config.maxVelocity * MaxDt <= config.ballRadius * MS)
        => isPointInsideHexagon(ballState.position, hexagon)

\* C25: every call of animate, playing or paused, reaches render() and
\* leaves one frame scheduled; a playing frame calls update once and then
\* getState, getHexagon, getKineticEnergy, getVelocity and the collision
\* signal of the engine, none of which throws; a paused frame leaves the
\* ball and the hexagon of the engine as they were.
C25_FrameLoop ==
    [][ component'.frames = component.frames + 1 =>
          /\ component'.rendered
          /\ ~component'.threw
          /\ component'.scheduled = 1
          /\ (component.isPlaying =>
                /\ component'.called = FrameCalls
                /\ last'.name = "update")
          /\ (~component.isPlaying => UNCHANGED <<ballState, hexagon>>)
      ]_vars
====
